---- MODULE Spec2Model ----
(***************************************************************************)
(* KakaoTalkService (src/src/services/kakaotalk.service.ts): the session   *)
(* fields browser / mainPage / isLoggedIn shared by concurrently running   *)
(* sendMessage and initialize calls.  A call is an async function: it runs *)
(* atomically up to the next driver call it awaits (launch, newPage, goto, *)
(* click, close, ...), and other calls run while that driver call is       *)
(* pending.  One action of the model is the resolution of one awaited      *)
(* driver call together with the synchronous code that follows it, up to   *)
(* and including the issue of the next driver call.  Returning from        *)
(* initializeMainPage / initBrowser into the caller is part of the same    *)
(* step (no driver call is pending in between).                            *)
(***************************************************************************)
EXTENDS Integers, Sequences, FiniteSets, TLC

\* Number of calls (sendMessage or initialize) made on the one service.
NumCalls == 2
\* Number of environment faults (remote logout, browser crash) in a run.
MaxFaults == 1

Calls == 1..NumCalls

VARIABLES
  browser,     \* this.browser: 0 = null, else the id of a launched browser
  mainPage,    \* this.mainPage: 0 = null, else the id of a page
  isLoggedIn,  \* this.isLoggedIn
  browsers,    \* driver: launched browsers, id -> [open, authed]
  pages,       \* driver: created pages, id -> [br, closed, kind, by, actors]
  call,        \* per call: position, locals, result and observation fields
  nLogin,      \* number of loginToKakaoTalk invocations so far
  faults,      \* number of environment faults so far
  chatListStorage, \* this.chatListStorage: the snapshots in insertion order
  now,         \* the wall clock read by Date.now() / new Date(), in ms
  ret,         \* the chat-list operation completed last and its result
  hist         \* chat-list operations so far: [ops, saves, deletes], and
               \* setBack: the wall clock was set back at some point

sessionVars ==
  <<browser, mainPage, isLoggedIn, browsers, pages, call, nLogin, faults>>
storeVars == <<chatListStorage, now, ret, hist>>
vars == <<browser, mainPage, isLoggedIn, browsers, pages, call, nLogin, faults,
          chatListStorage, now, ret, hist>>

(***************************************************************************)
(* MessageData as far as the code reads it: the type and whether the       *)
(* reference the type needs (imageUrl / fileName) is present.              *)
(***************************************************************************)
Msgs ==
  { [messageType |-> "text",  hasRef |-> FALSE],
    [messageType |-> "image", hasRef |-> TRUE],
    [messageType |-> "image", hasRef |-> FALSE],
    [messageType |-> "file",  hasRef |-> TRUE],
    [messageType |-> "file",  hasRef |-> FALSE] }

NoMsg == [messageType |-> "none", hasRef |-> FALSE]

\* Error classes by message text.  "login" is the one thrown at line 150
\* ("카카오톡 로그인에 실패했습니다."); "nomain" is line 271; "initfail" is
\* line 698; "driver" is any error raised by a Playwright call; "network"
\* is a rejected fetch(), "http" is line 463, "body" is an error raised by
\* response.json() or by reading data.items.length (line 469).
Errors ==
  {"none", "login", "nomain", "initfail", "driver", "network", "http", "body"}

\* error.message.includes("로그인") at line 298
ErrHasLoginAny(e) == e # "none"
ErrHasLogin(e) == e \in {"login"}

\* page.isClosed()
IsClosed(g) == pages[g].closed

\* the negation of the test at line 252
SessionUsableNoCheck(li, mp) == TRUE
SessionUsable(li, mp) == li /\ mp # 0 /\ ~IsClosed(mp)

\* isServiceReady(), lines 715-717
isServiceReady == isLoggedIn /\ mainPage # 0 /\ ~IsClosed(mainPage)

\* the remote site serves the chat view only to an authenticated context
RemoteAuthed(g) == browsers[pages[g].br].open /\ browsers[pages[g].br].authed

\* closing a browser closes its pages
ClosePagesOf(b) ==
  [i \in DOMAIN pages |->
     IF pages[i].br = b THEN [pages[i] EXCEPT !.closed = TRUE] ELSE pages[i]]

\* id of a snapshot: the template `chatlist_${Date.now()}` (line 496)
ChatListId(t) == [prefix |-> "chatlist_", ms |-> t]
\* an id string that saveChatList never generates
OtherId == [prefix |-> "other", ms |-> 0]
NoId == [prefix |-> "", ms |-> 0]

InitCall ==
  [ pc       |-> "idle",
    op       |-> "none",    \* "send", "init", "close" or "fetchSave"
    phase    |-> 0,         \* 1: initBrowser of line 249/695, 2: of line 262
    lbr      |-> 0,         \* browser the pending driver call was issued on
    lpg      |-> 0,         \* page the pending driver call was issued on
    tempPage |-> 0,         \* the local tempPage
    msg      |-> NoMsg,
    err      |-> "none",    \* error thrown in this call
    res      |-> "none",    \* "ok": success = true, "fail": success = false,
                            \* "void": resolved with no value,
                            \* "rejected": the promise was rejected
    hasId    |-> FALSE,     \* messageId present in the result
    resErr   |-> "none",    \* the error field of the result, "none" = absent
    hasTs    |-> FALSE,     \* timestamp present in the result
    rid      |-> NoId,      \* fetchAndSaveChatList: the id field of the result
    ritems   |-> << >>,     \* ... the items of the data field of the result
    rnext    |-> FALSE,     \* ... has_next of the data field of the result
    \* observation fields (set by the steps, read only by the properties)
    uninitAtCall  |-> FALSE,  \* browser was null when the call was made
    expiredAtCall |-> FALSE,  \* session was not usable when the call was made
    auth     |-> "none",    \* outcome of this call's own login: ok / failed
    sent     |-> 0,         \* clicks on the send button
    attFailed |-> FALSE,    \* an attachment step failed
    lost     |-> FALSE,     \* a dispatch step failed because the session was lost
    opened   |-> 0,         \* temporary pages opened
    closeTried |-> FALSE,   \* tempPage.close() was called
    swallowed |-> FALSE ]   \* a rejected driver call was logged and dropped

\* no chat-list operation has completed yet
NoRet ==
  [op |-> "none", items |-> << >>, qid |-> NoId, success |-> FALSE,
   error |-> "none", id |-> NoId, data |-> << >>]

\* chatListStorage = [] (line 91); no operation yet
InitStore ==
  /\ chatListStorage = << >>
  /\ now = 0
  /\ ret = NoRet
  /\ hist = [ops |-> 0, saves |-> 0, deletes |-> 0, setBack |-> FALSE]

Init ==
  /\ browser = 0
  /\ mainPage = 0
  /\ isLoggedIn = FALSE
  /\ browsers = << >>
  /\ pages = << >>
  /\ call = [p \in Calls |-> InitCall]
  /\ nLogin = 0
  /\ faults = 0
  /\ InitStore

(***************************************************************************)
(* A continuation is a function of the session fields and the call record  *)
(* as they are at that point of the code: s = [browser, mainPage,          *)
(* isLoggedIn, c].                                                         *)
(***************************************************************************)
Cur(p) ==
  [browser |-> browser, mainPage |-> mainPage, isLoggedIn |-> isLoggedIn,
   c |-> call[p]]

Apply(p, s) ==
  /\ browser' = s.browser
  /\ mainPage' = s.mainPage
  /\ isLoggedIn' = s.isLoggedIn
  /\ call' = [call EXCEPT ![p] = s.c]
  /\ UNCHANGED storeVars

\* the call returns: its locals that name pending driver calls go away
Return(s) ==
  [s EXCEPT !.c.pc = "done", !.c.lbr = 0, !.c.lpg = 0, !.c.msg = NoMsg]

\* finally block of sendMessage, lines 308-316
FinallyNoClose(s) == Return(s)
Finally(s) ==
  IF s.c.tempPage # 0 /\ ~IsClosed(s.c.tempPage)
  THEN [s EXCEPT !.c.pc = "closeTemp", !.c.lpg = s.c.tempPage,
                 !.c.closeTried = TRUE]
  ELSE Return(s)

\* catch block of sendMessage (lines 294-307) or of initialize (703-709)
Catch(s, e) ==
  IF s.c.op = "init"
  THEN Return([s EXCEPT !.c.err = e, !.c.res = "fail", !.c.resErr = e])
  ELSE LET t == IF ErrHasLogin(e)
                THEN [s EXCEPT !.isLoggedIn = FALSE, !.mainPage = 0]
                ELSE s
       IN Finally([t EXCEPT !.c.err = e, !.c.res = "fail", !.c.resErr = e,
                            !.c.hasTs = TRUE])

\* lines 289-293 followed by the finally block
ReturnSuccessNoId(s) ==
  Finally([s EXCEPT !.c.res = "ok", !.c.hasTs = TRUE])
ReturnSuccess(s) ==
  Finally([s EXCEPT !.c.res = "ok", !.c.hasId = TRUE, !.c.hasTs = TRUE])

\* lines 265-274: the main page must exist, then newPage() is awaited
Line270(s) ==
  IF s.mainPage = 0
  THEN Catch(s, "nomain")
  ELSE [s EXCEPT !.c.pc = "newTemp", !.c.lbr = pages[s.mainPage].br]

\* initBrowser entered with browser = null: launch is awaited (line 98)
StartLaunchWaits(s, ph) ==
  IF \E q \in Calls : call[q].pc = "launch"
  THEN [s EXCEPT !.c.pc = "awaitLaunch", !.c.phase = ph]
  ELSE [s EXCEPT !.c.pc = "launch", !.c.phase = ph]
StartLaunch(s, ph) == [s EXCEPT !.c.pc = "launch", !.c.phase = ph]

\* lines 252-263: the session check and the re-login branch
SessionCheck(s) ==
  IF ~SessionUsable(s.isLoggedIn, s.mainPage)
  THEN LET t == [s EXCEPT !.isLoggedIn = FALSE, !.mainPage = 0]
       IN IF t.browser # 0
          THEN [t EXCEPT !.c.pc = "closeBrowser", !.c.lbr = t.browser]
          ELSE StartLaunch(t, 2)
  ELSE Line270(s)

\* initBrowser has returned to its caller
AfterInitBrowser(s) ==
  IF s.c.op = "init"
  THEN IF s.isLoggedIn
       THEN Return([s EXCEPT !.c.res = "ok"])
       ELSE Catch(s, "initfail")
  ELSE IF s.c.phase = 1 THEN SessionCheck(s) ELSE Line270(s)

\* catch block of initializeMainPage, lines 155-163
InitCatch(s, e) ==
  LET t == [s EXCEPT !.isLoggedIn = FALSE, !.c.err = e]
  IN IF t.mainPage # 0
     THEN [t EXCEPT !.c.pc = "closeMain", !.c.lpg = t.mainPage]
     ELSE Catch(t, e)

\* the page a dispatch step is issued on: the call's own temporary page
DispatchPageMain(s) == IF s.mainPage # 0 THEN s.mainPage ELSE s.c.tempPage
DispatchPage(s) == s.c.tempPage

\* issue the next dispatch driver call
Issue(s, next) == [s EXCEPT !.c.pc = next, !.c.lpg = DispatchPage(s)]

\* a dispatch driver call rejected: the error propagates to the catch block
DispatchFail(p, isLost) ==
  /\ Apply(p, Catch([Cur(p) EXCEPT !.c.lost = isLost], "driver"))
  /\ UNCHANGED <<browsers, pages, nLogin, faults>>

\* a dispatch driver call on page g resolved
Acted(p, g) == pages' = [pages EXCEPT ![g].actors = @ \cup {p}]

(***************************************************************************)
(* sendMessage(messageData, chatId) / initialize() is called: lines        *)
(* 245-249 and 690-695, then initBrowser up to its first await.            *)
(***************************************************************************)
Call(p) ==
  /\ call[p].pc = "idle"
  /\ p > 1 => call[p - 1].pc # "idle"
  /\ \E o \in {"send", "init"} :
       LET s == [Cur(p) EXCEPT !.c.op = o, !.c.phase = 1,
                               !.c.uninitAtCall = (browser = 0),
                               !.c.expiredAtCall = ~isServiceReady]
       IN Apply(p, IF s.browser = 0 THEN StartLaunch(s, 1)
                   ELSE AfterInitBrowser(s))
  /\ UNCHANGED <<browsers, pages, nLogin, faults>>

\* chromium.launch() resolves (line 98), then lines 120, 129-137
LaunchDone(p) ==
  /\ call[p].pc = "launch"
  /\ \/ LET n == Len(browsers) + 1
        IN /\ browsers' = Append(browsers, [open |-> TRUE, authed |-> FALSE])
           /\ Apply(p, [Cur(p) EXCEPT !.browser = n, !.c.pc = "newMain",
                                      !.c.lbr = n])
           /\ UNCHANGED <<pages, nLogin, faults>>
     \/ /\ Apply(p, Catch(Cur(p), "driver"))
        /\ UNCHANGED <<browsers, pages, nLogin, faults>>

\* this.browser.newPage() resolves (line 137), then line 140
NewMainDone(p) ==
  /\ call[p].pc = "newMain"
  /\ \/ /\ browsers[call[p].lbr].open
        /\ LET g == Len(pages) + 1
           IN /\ pages' = Append(pages, [br |-> call[p].lbr, closed |-> FALSE,
                                         kind |-> "main", by |-> p,
                                         actors |-> {}])
              /\ Apply(p, [Cur(p) EXCEPT !.mainPage = g, !.c.pc = "viewport",
                                         !.c.lpg = g])
        /\ UNCHANGED <<browsers, nLogin, faults>>
     \/ /\ Apply(p, InitCatch(Cur(p), "driver"))
        /\ UNCHANGED <<browsers, pages, nLogin, faults>>

\* setViewportSize resolves (line 140), then line 141 reads this.mainPage
ViewportDone(p) ==
  /\ call[p].pc = "viewport"
  /\ \/ /\ ~IsClosed(call[p].lpg)
        /\ Apply(p, IF mainPage = 0 THEN InitCatch(Cur(p), "driver")
                    ELSE [Cur(p) EXCEPT !.c.pc = "headers",
                                        !.c.lpg = mainPage])
     \/ Apply(p, InitCatch(Cur(p), "driver"))
  /\ UNCHANGED <<browsers, pages, nLogin, faults>>

\* setExtraHTTPHeaders resolves (line 141), then loginToKakaoTalk is
\* called with this.mainPage (line 148)
HeadersDone(p) ==
  /\ call[p].pc = "headers"
  /\ \/ /\ ~IsClosed(call[p].lpg)
        /\ Apply(p, [Cur(p) EXCEPT !.c.pc = "login", !.c.lpg = mainPage])
        /\ nLogin' = nLogin + 1
     \/ /\ Apply(p, InitCatch(Cur(p), "driver"))
        /\ UNCHANGED nLogin
  /\ UNCHANGED <<browsers, pages, faults>>

\* loginToKakaoTalk(page) resolves (lines 170-230): true when the form was
\* submitted and the landmark appeared, or the landmark was already there;
\* false otherwise, and always false when the page is gone (every driver
\* error is caught at line 226).  Then lines 149-153 or the catch block.
LoginDone(p) ==
  /\ call[p].pc = "login"
  /\ \/ /\ call[p].lpg # 0
        /\ ~IsClosed(call[p].lpg)
        /\ browsers' = [browsers EXCEPT ![pages[call[p].lpg].br].authed = TRUE]
        /\ Apply(p, AfterInitBrowser([Cur(p) EXCEPT !.isLoggedIn = TRUE,
                                                    !.c.auth = "ok"]))
     \/ /\ Apply(p, InitCatch([Cur(p) EXCEPT !.c.auth = "failed"], "login"))
        /\ UNCHANGED browsers
  /\ UNCHANGED <<pages, nLogin, faults>>

\* this.mainPage.close() in the catch block resolves (line 159), then
\* lines 160-162 and the caller's catch block
CloseMainDone(p) ==
  /\ call[p].pc = "closeMain"
  /\ \/ /\ pages' = [pages EXCEPT ![call[p].lpg].closed = TRUE]
        /\ Apply(p, Catch([Cur(p) EXCEPT !.mainPage = 0], call[p].err))
     \/ /\ Apply(p, Catch(Cur(p), "driver"))
        /\ UNCHANGED pages
  /\ UNCHANGED <<browsers, nLogin, faults>>

\* this.browser.close() resolves (line 259), then lines 260-262
CloseBrowserDone(p) ==
  /\ call[p].pc = "closeBrowser"
  /\ \/ /\ browsers' = [browsers EXCEPT ![call[p].lbr].open = FALSE]
        /\ pages' = ClosePagesOf(call[p].lbr)
        /\ Apply(p, StartLaunch([Cur(p) EXCEPT !.browser = 0], 2))
     \/ /\ Apply(p, Catch(Cur(p), "driver"))
        /\ UNCHANGED <<browsers, pages>>
  /\ UNCHANGED <<nLogin, faults>>

\* this.mainPage.context().newPage() resolves (line 273), then line 274
NewTempDone(p) ==
  /\ call[p].pc = "newTemp"
  /\ \/ /\ browsers[call[p].lbr].open
        /\ LET g == Len(pages) + 1
           IN /\ pages' = Append(pages, [br |-> call[p].lbr, closed |-> FALSE,
                                         kind |-> "temp", by |-> p,
                                         actors |-> {}])
              /\ Apply(p, Issue([Cur(p) EXCEPT !.c.tempPage = g,
                                               !.c.opened = @ + 1], "goto"))
        /\ UNCHANGED <<browsers, nLogin, faults>>
     \/ DispatchFail(p, ~browsers[call[p].lbr].open)

\* tempPage.goto(chatUrl) resolves (line 274), then line 277
GotoDone(p) ==
  /\ call[p].pc = "goto"
  /\ \/ /\ ~IsClosed(call[p].lpg)
        /\ Acted(p, call[p].lpg)
        /\ Apply(p, Issue(Cur(p), "loadState"))
        /\ UNCHANGED <<browsers, nLogin, faults>>
     \/ DispatchFail(p, IsClosed(call[p].lpg))

\* waitForLoadState resolves (line 277), then lines 280, 327-330
LoadStateDone(p) ==
  /\ call[p].pc = "loadState"
  /\ \/ /\ ~IsClosed(call[p].lpg)
        /\ Apply(p, Issue(Cur(p), "waitInput"))
        /\ UNCHANGED <<browsers, pages, nLogin, faults>>
     \/ DispatchFail(p, IsClosed(call[p].lpg))

\* messageInput.waitFor resolves (line 330): #chatWrite is shown only to an
\* authenticated context; then line 333
WaitInputDoneIgnoresTimeout(p) ==
  /\ call[p].pc = "waitInput"
  /\ Apply(p, Issue(Cur(p), "fill"))
  /\ UNCHANGED <<browsers, pages, nLogin, faults>>
WaitInputDone(p) ==
  /\ call[p].pc = "waitInput"
  /\ \/ /\ ~IsClosed(call[p].lpg)
        /\ RemoteAuthed(call[p].lpg)
        /\ Apply(p, Issue(Cur(p), "fill"))
        /\ UNCHANGED <<browsers, pages, nLogin, faults>>
     \/ DispatchFail(p, IsClosed(call[p].lpg) \/ ~RemoteAuthed(call[p].lpg))

\* whether lines 336-340 run an attachment step for this message
NeedsAttach(m) == m.messageType \in {"image", "file"} /\ m.hasRef

\* messageInput.fill resolves (line 333), then lines 336-347.  messageData
\* is immutable and its type is first read here, so it is drawn here.
FillDone(p) ==
  /\ call[p].pc = "fill"
  /\ \/ /\ ~IsClosed(call[p].lpg)
        /\ Acted(p, call[p].lpg)
        /\ \E m \in Msgs :
             Apply(p, Issue([Cur(p) EXCEPT !.c.msg = m],
                            IF NeedsAttach(m) THEN "attachButton"
                            ELSE "readText"))
        /\ UNCHANGED <<browsers, nLogin, faults>>
     \/ DispatchFail(p, IsClosed(call[p].lpg))

\* an attachment step rejected: attachImage / attachFile rethrow (392, 422),
\* inputAndSendMessage rethrows (362)
AttachFailSwallowed(p) ==
  /\ Apply(p, Issue([Cur(p) EXCEPT !.c.attFailed = TRUE], "readText"))
  /\ UNCHANGED <<browsers, pages, nLogin, faults>>
AttachFail(p) ==
  /\ Apply(p, Catch([Cur(p) EXCEPT !.c.attFailed = TRUE,
                                   !.c.lost = IsClosed(call[p].lpg)], "driver"))
  /\ UNCHANGED <<browsers, pages, nLogin, faults>>

\* attachButton.click() resolves (lines 379, 409)
AttachButtonDone(p) ==
  /\ call[p].pc = "attachButton"
  /\ \/ /\ ~IsClosed(call[p].lpg)
        /\ Apply(p, Issue(Cur(p), "attachOption"))
        /\ UNCHANGED <<browsers, pages, nLogin, faults>>
     \/ AttachFail(p)

\* imageOption.click() / fileOption.click() resolves (lines 383, 413)
AttachOptionDone(p) ==
  /\ call[p].pc = "attachOption"
  /\ \/ /\ ~IsClosed(call[p].lpg)
        /\ Apply(p, Issue(Cur(p), "readText"))
        /\ UNCHANGED <<browsers, pages, nLogin, faults>>
     \/ AttachFail(p)

\* sendButton.textContent() resolves (line 347), then line 350
ReadTextDone(p) ==
  /\ call[p].pc = "readText"
  /\ \/ /\ ~IsClosed(call[p].lpg)
        /\ Apply(p, Issue(Cur(p), "pause"))
        /\ UNCHANGED <<browsers, pages, nLogin, faults>>
     \/ DispatchFail(p, IsClosed(call[p].lpg))

\* the step after page.waitForTimeout(100): sendButton.click() (line 351)
AfterPause(s) == Issue(s, "click")

\* page.waitForTimeout(100) resolves (line 350)
PauseDone(p) ==
  /\ call[p].pc = "pause"
  /\ \/ /\ ~IsClosed(call[p].lpg)
        /\ Apply(p, AfterPause(Cur(p)))
        /\ UNCHANGED <<browsers, pages, nLogin, faults>>
     \/ DispatchFail(p, IsClosed(call[p].lpg))

\* the step after the send click: the settle wait (line 354)
AfterClickAgain(s) ==
  IF s.c.sent < 2 THEN Issue(s, "click") ELSE Issue(s, "settle")
AfterClick(s) == Issue(s, "settle")

\* sendButton.click() resolves (line 351)
ClickDone(p) ==
  /\ call[p].pc = "click"
  /\ \/ /\ ~IsClosed(call[p].lpg)
        /\ Acted(p, call[p].lpg)
        /\ Apply(p, AfterClick([Cur(p) EXCEPT !.c.sent = @ + 1]))
        /\ UNCHANGED <<browsers, nLogin, faults>>
     \/ DispatchFail(p, IsClosed(call[p].lpg))

\* page.waitForTimeout(1000) resolves (line 354), then lines 356-293
SettleDone(p) ==
  /\ call[p].pc = "settle"
  /\ \/ /\ ~IsClosed(call[p].lpg)
        /\ Apply(p, ReturnSuccess(Cur(p)))
        /\ UNCHANGED <<browsers, pages, nLogin, faults>>
     \/ DispatchFail(p, IsClosed(call[p].lpg))

\* tempPage.close() rejected: the inner catch logs a warning (lines 312-314)
CloseTempRejectedThrows(s) == Return([s EXCEPT !.c.res = "rejected"])
CloseTempRejected(s) == Return([s EXCEPT !.c.swallowed = TRUE])

\* tempPage.close() resolves or rejects (lines 311-314); the call returns
CloseTempDone(p) ==
  /\ call[p].pc = "closeTemp"
  /\ \/ /\ pages' = [pages EXCEPT ![call[p].lpg].closed = TRUE]
        /\ Apply(p, Return(Cur(p)))
     \/ /\ UNCHANGED pages
        /\ Apply(p, CloseTempRejected(Cur(p)))
  /\ UNCHANGED <<browsers, nLogin, faults>>

(***************************************************************************)
(* Environment: the remote site ends the web session of a browser (forced  *)
(* logout, timeout), or a browser process dies.                            *)
(***************************************************************************)
RemoteLogout ==
  /\ faults < MaxFaults
  /\ \E b \in DOMAIN browsers :
       /\ browsers[b].open /\ browsers[b].authed
       /\ browsers' = [browsers EXCEPT ![b].authed = FALSE]
  /\ faults' = faults + 1
  /\ UNCHANGED <<browser, mainPage, isLoggedIn, pages, call, nLogin>>
  /\ UNCHANGED storeVars

BrowserCrash ==
  /\ faults < MaxFaults
  /\ \E b \in DOMAIN browsers :
       /\ browsers[b].open
       /\ browsers' = [browsers EXCEPT ![b].open = FALSE]
       /\ pages' = ClosePagesOf(b)
  /\ faults' = faults + 1
  /\ UNCHANGED <<browser, mainPage, isLoggedIn, call, nLogin>>
  /\ UNCHANGED storeVars

Step(p) ==
  \/ Call(p)
  \/ LaunchDone(p)
  \/ NewMainDone(p)
  \/ ViewportDone(p)
  \/ HeadersDone(p)
  \/ LoginDone(p)
  \/ CloseMainDone(p)
  \/ CloseBrowserDone(p)
  \/ NewTempDone(p)
  \/ GotoDone(p)
  \/ LoadStateDone(p)
  \/ WaitInputDone(p)
  \/ FillDone(p)
  \/ AttachButtonDone(p)
  \/ AttachOptionDone(p)
  \/ ReadTextDone(p)
  \/ PauseDone(p)
  \/ ClickDone(p)
  \/ SettleDone(p)
  \/ CloseTempDone(p)

Next ==
  \/ \E p \in Calls : Step(p)
  \/ RemoteLogout
  \/ BrowserCrash

Spec == Init /\ [][Next]_vars

(***************************************************************************)
(* Calls made one after the other: a call is made only when no other call  *)
(* is in flight (a single client that awaits each result).                 *)
(***************************************************************************)
NoCallInFlight == \A q \in Calls : call[q].pc \in {"idle", "done"}

CallSeq(p) == NoCallInFlight /\ Call(p)

StepSeq(p) ==
  \/ CallSeq(p)
  \/ LaunchDone(p)
  \/ NewMainDone(p)
  \/ ViewportDone(p)
  \/ HeadersDone(p)
  \/ LoginDone(p)
  \/ CloseMainDone(p)
  \/ CloseBrowserDone(p)
  \/ NewTempDone(p)
  \/ GotoDone(p)
  \/ LoadStateDone(p)
  \/ WaitInputDone(p)
  \/ FillDone(p)
  \/ AttachButtonDone(p)
  \/ AttachOptionDone(p)
  \/ ReadTextDone(p)
  \/ PauseDone(p)
  \/ ClickDone(p)
  \/ SettleDone(p)
  \/ CloseTempDone(p)

NextSeq ==
  \/ \E p \in Calls : StepSeq(p)
  \/ RemoteLogout
  \/ BrowserCrash

SpecSeq == Init /\ [][NextSeq]_vars

(***************************************************************************)
(* The service after initialize() succeeded at startup (index.ts line 83): *)
(* one browser, its main page, logged in.  ReadyReachable below shows that *)
(* Spec reaches this session state.                                        *)
(***************************************************************************)
InitReady ==
  /\ browser = 1
  /\ mainPage = 1
  /\ isLoggedIn = TRUE
  /\ browsers = << [open |-> TRUE, authed |-> TRUE] >>
  /\ pages = << [br |-> 1, closed |-> FALSE, kind |-> "main", by |-> 1,
                 actors |-> {}] >>
  /\ call = [p \in Calls |-> InitCall]
  /\ nLogin = 1
  /\ faults = 0
  /\ InitStore

SpecReady == InitReady /\ [][Next]_vars

TypeOK ==
  /\ browser \in 0..Len(browsers)
  /\ mainPage \in 0..Len(pages)
  /\ isLoggedIn \in BOOLEAN
  /\ \A p \in Calls : call[p].err \in Errors /\ call[p].sent \in 0..1

\* The session state InitReady starts from, as Spec reaches it: the first
\* call was initialize() and it returned success.
ReadyAfterInitialize ==
  /\ call[1].pc = "done" /\ call[1].op = "init" /\ call[1].res = "ok"
  /\ browser = 1 /\ mainPage = 1 /\ isLoggedIn
  /\ browsers = << [open |-> TRUE, authed |-> TRUE] >>
  /\ pages = << [br |-> 1, closed |-> FALSE, kind |-> "main", by |-> 1,
                 actors |-> {}] >>
  /\ nLogin = 1 /\ faults = 0

\* initializeMainPage (lines 128-164) is running in call p
InAuth(p) ==
  call[p].pc \in {"newMain", "viewport", "headers", "login", "closeMain"}

\* call p is between newPage() of line 273 and its return
InDispatch(p) == call[p].tempPage # 0 /\ call[p].pc # "done"

Started(p) == call[p].pc # "idle"

(***************************************************************************)
(* C1: when several sendMessage / initialize calls run concurrently on a   *)
(* service whose browser is null, exactly one browser is launched and      *)
(* exactly one login attempt is made across all of them.  Stated for the   *)
(* runs in which every call so far was made with browser = null, none has  *)
(* returned yet and no environment fault happened.                         *)
(***************************************************************************)
C1_OneLaunchOneLogin ==
  ( /\ faults = 0
    /\ \A p \in Calls : call[p].pc # "done"
    /\ \A p \in Calls : Started(p) => call[p].uninitAtCall )
  => (Len(browsers) <= 1 /\ nLogin <= 1)

(***************************************************************************)
(* C2: in every reachable state at most one authentication attempt         *)
(* (initializeMainPage / loginToKakaoTalk) is in flight.                   *)
(***************************************************************************)
C2_OneAuthInFlight ==
  Cardinality({p \in Calls : InAuth(p)}) <= 1

(***************************************************************************)
(* C3: while an authentication attempt is in flight in call q, no other    *)
(* call p starts an attempt of its own (a launch, or the teardown that     *)
(* precedes it) and none closes the browser q's attempt is using: p waits  *)
(* for q's outcome.                                                        *)
(***************************************************************************)
StartsOwnAttempt(p) ==
  /\ call[p].pc \notin {"launch", "closeBrowser"}
  /\ call'[p].pc \in {"launch", "closeBrowser"}

C3_WaitersDoNotInterfere ==
  [][\A p, q \in Calls : (p # q /\ InAuth(q)) => ~StartsOwnAttempt(p)]_vars

(***************************************************************************)
(* C4: at the moment sendMessage calls newPage() for its temporary page    *)
(* (line 273) the session is Ready: isLoggedIn is true, mainPage is        *)
(* non-null, not closed, and a page of the browser the service holds.      *)
(***************************************************************************)
C4_TempPageOnlyWhenReady ==
  [][\A p \in Calls :
       (call[p].pc # "newTemp" /\ call'[p].pc = "newTemp")
       => ( /\ isLoggedIn'
            /\ mainPage' # 0
            /\ ~pages'[mainPage'].closed
            /\ pages'[mainPage'].br = browser' )]_vars

(***************************************************************************)
(* C5 (calls made one after the other): a sendMessage call made while the  *)
(* session is not usable opens its temporary page only after its own       *)
(* authentication succeeded; when that authentication fails the call       *)
(* returns success = false with an error and opens no temporary page; when *)
(* it succeeds the dispatch proceeds, and returns success = true with a    *)
(* messageId and one send click unless a driver call of the dispatch is    *)
(* rejected.                                                               *)
(***************************************************************************)
C5_ExpiredReauthFirst ==
  \A p \in Calls :
    (call[p].op = "send" /\ call[p].expiredAtCall) =>
      /\ (call[p].pc = "newTemp" \/ call[p].opened > 0) => call[p].auth = "ok"
      /\ (call[p].pc = "done" /\ call[p].auth = "failed") =>
           (call[p].res = "fail" /\ call[p].err # "none" /\ call[p].opened = 0)
      /\ (call[p].pc = "done" /\ call[p].auth = "ok") =>
           /\ call[p].err \in {"none", "driver"}
           /\ call[p].err = "none" =>
                (call[p].res = "ok" /\ call[p].hasId /\ call[p].sent = 1)

\* a call made on an expired session re-authenticated and delivered, and
\* another one failed to re-authenticate
C5_Witness ==
  \E p \in Calls :
    /\ call[p].op = "send" /\ call[p].expiredAtCall /\ call[p].phase = 2
    /\ call[p].pc = "done" /\ call[p].auth = "ok" /\ call[p].res = "ok"
    /\ \E q \in Calls :
         /\ call[q].op = "send" /\ call[q].expiredAtCall
         /\ call[q].pc = "done" /\ call[q].auth = "failed"

(***************************************************************************)
(* C6: when a dispatch step fails because the session was lost (remote     *)
(* logout, closed context, crashed browser), the step that reports the     *)
(* failure leaves the session marked not Ready, so that the next           *)
(* sendMessage re-authenticates.                                           *)
(***************************************************************************)
C6_LossMarksSessionExpired ==
  [][\A p \in Calls :
       (call[p].res = "none" /\ call'[p].res = "fail" /\ call'[p].lost)
       => ~isServiceReady']_vars

(***************************************************************************)
(* C7: in a dispatch whose attachment step fails the send button is never  *)
(* clicked, and the call returns success = false.                          *)
(***************************************************************************)
C7_NoSendAfterAttachFailure ==
  \A p \in Calls :
    call[p].attFailed =>
      /\ call[p].sent = 0
      /\ call[p].pc \in {"closeTemp", "done"}
      /\ call[p].res = "fail"

C7_Witness ==
  \E p \in Calls :
    call[p].attFailed /\ call[p].pc = "done" /\ call[p].res = "fail"

(***************************************************************************)
(* C8: a sendMessage call clicks the send button at most once, exactly     *)
(* once when it returns success = true, opens at most one temporary page   *)
(* (also after a re-login), and performs no further step once it failed.   *)
(***************************************************************************)
C8_AtMostOneSend ==
  \A p \in Calls :
    /\ call[p].sent <= 1
    /\ call[p].opened <= 1
    /\ (call[p].op = "send" /\ call[p].res = "ok") => call[p].sent = 1
    /\ call[p].res # "none" => call[p].pc \in {"closeTemp", "done"}

\* one call delivered after a re-login, another failed after its click
C8_Witness ==
  \E p, q \in Calls :
    /\ call[p].pc = "done" /\ call[p].res = "ok" /\ call[p].sent = 1
    /\ call[p].phase = 2
    /\ call[q].pc = "done" /\ call[q].res = "fail" /\ call[q].sent = 1

(***************************************************************************)
(* C9 as stated: every temporary page a call opened is closed, or its      *)
(* close was attempted, when the call has returned; and once all calls     *)
(* have returned no temporary page is still open.                          *)
(***************************************************************************)
C9_NoTempPageLeftOpen ==
  /\ \A g \in DOMAIN pages :
       (pages[g].kind = "temp" /\ call[pages[g].by].pc = "done")
       => (pages[g].closed \/ call[pages[g].by].closeTried)
  /\ NoCallInFlight =>
       \A g \in DOMAIN pages : pages[g].kind = "temp" => pages[g].closed

(***************************************************************************)
(* C9 amended: every temporary page a call opened is closed, or its close  *)
(* was attempted, when the call has returned, whether the dispatch         *)
(* succeeded or failed; once all calls have returned the only temporary    *)
(* pages still open are those whose close() was called and rejected.       *)
(***************************************************************************)
C9_TempPageClosedOrCloseRejected ==
  /\ \A p \in Calls : (call[p].tempPage # 0) = (call[p].opened > 0)
  /\ \A g \in DOMAIN pages :
       pages[g].kind = "temp" =>
         /\ call[pages[g].by].tempPage = g
         /\ call[pages[g].by].pc = "done" =>
              (pages[g].closed \/ call[pages[g].by].closeTried)

\* one call failed and its page was closed; the other's close was rejected
C9_Witness ==
  \E p, q \in Calls :
    /\ call[p].pc = "done" /\ call[p].res = "fail" /\ call[p].tempPage # 0
    /\ pages[call[p].tempPage].closed /\ call[p].closeTried
    /\ call[q].pc = "done" /\ call[q].tempPage # 0
    /\ ~pages[call[q].tempPage].closed /\ call[q].closeTried

(***************************************************************************)
(* C10 (session Ready at the start): every dispatch navigates, fills and   *)
(* clicks only on the temporary page it opened itself, never on the main   *)
(* page or on another call's page; when every call so far found the        *)
(* session Ready and no fault happened, no browser and no page of a        *)
(* dispatch in flight is closed by another call, no dispatch fails for a   *)
(* lost session, and a dispatch none of whose driver calls is rejected     *)
(* returns success = true after one send click.                            *)
(***************************************************************************)
AllFoundReady ==
  /\ faults = 0
  /\ \A p \in Calls : Started(p) => ~call[p].expiredAtCall

C10_ConcurrentDispatchesIsolated ==
  /\ \A g \in DOMAIN pages :
       pages[g].actors \subseteq
         (IF pages[g].kind = "temp" THEN {pages[g].by} ELSE {})
  /\ AllFoundReady =>
       /\ \A b \in DOMAIN browsers : browsers[b].open
       /\ \A p \in Calls :
            /\ ~call[p].lost
            /\ InDispatch(p) => ~IsClosed(call[p].tempPage)
            /\ call[p].err \in {"none", "driver"}
            /\ (call[p].op = "send" /\ call[p].pc = "done"
                  /\ call[p].err = "none") =>
                 (call[p].res = "ok" /\ call[p].sent = 1)

\* two dispatches in flight at once, both past their send click, both
\* on the way to return success
C10_Witness ==
  /\ AllFoundReady
  /\ \A p \in Calls :
       /\ call[p].op = "send" /\ call[p].pc = "closeTemp"
       /\ call[p].res = "ok" /\ call[p].sent = 1
       /\ pages[call[p].tempPage].actors = {p}

(***************************************************************************)
(* C11: every result sendMessage computes carries a timestamp; a result    *)
(* with success = true has a messageId and no error; a result with         *)
(* success = false has an error and no messageId.                          *)
(***************************************************************************)
C11_ResultShape ==
  \A p \in Calls :
    (call[p].op = "send" /\ call[p].pc \in {"closeTemp", "done"}) =>
      /\ call[p].res \in {"ok", "fail"}
      /\ call[p].hasTs
      /\ call[p].res = "ok" => (call[p].hasId /\ call[p].resErr = "none")
      /\ call[p].res = "fail" => (call[p].resErr # "none" /\ ~call[p].hasId)

\* one sendMessage returned success and the other returned a failure
C11_Witness ==
  \E p, q \in Calls :
    /\ call[p].op = "send" /\ call[p].pc = "done" /\ call[p].res = "ok"
    /\ call[q].op = "send" /\ call[q].pc = "done" /\ call[q].res = "fail"

(***************************************************************************)
(* C14: a dispatch whose send click was done for a message of type image   *)
(* or file has the reference of that type (imageUrl / fileName); a message *)
(* of type image or file without its reference is never sent.              *)
(***************************************************************************)
C14_AttachmentKindHasReference ==
  \A p \in Calls :
    (call[p].sent > 0 /\ call[p].msg.messageType \in {"image", "file"}) =>
      call[p].msg.hasRef

(***************************************************************************)
(* Fairness: every awaited driver call settles.  Each one has a timeout    *)
(* (launch, goto, waitForLoadState, fill, click, textContent: 30 s by      *)
(* default; waitForSelector 60 s, messageInput.waitFor 10 s,               *)
(* waitForTimeout 100 ms / 1 s) or is a close; once it has settled the     *)
(* event loop runs the continuation of the call.  The calls run without    *)
(* environment faults here; a driver call can still be rejected at every   *)
(* step.                                                                   *)
(***************************************************************************)
NextCalls == \E p \in Calls : Step(p)
SpecLive ==
  /\ Init /\ [][NextCalls]_vars
  /\ \A p \in Calls : WF_vars(call[p].pc # "idle" /\ Step(p))

(***************************************************************************)
(* C13: every call that was started eventually returns a result, under     *)
(* every interleaving of the calls and the environment.                    *)
(***************************************************************************)
C13_EveryCallReturns ==
  \A p \in Calls : (call[p].pc # "idle") ~> (call[p].pc = "done")

\* both sendMessage calls returned after both had launched a browser and
\* logged in while the other was in flight
C13_Witness ==
  /\ \A p \in Calls : call[p].op = "send" /\ call[p].pc = "done"
  /\ Len(browsers) = 2 /\ nLogin = 2

(***************************************************************************)
(* The chat-list snapshot store (lines 492-685).  saveChatList,            *)
(* getChatList, getLatestChatList and deleteChatList await nothing, so     *)
(* each runs from call to return in one step.  A ChatItem is modelled by   *)
(* its chat id; the clock is the wall clock, which the environment         *)
(* advances and may set back.                                              *)
(***************************************************************************)
\* Largest clock value, in ms.
MaxClock == 2
\* Number of chat-list operations in a run.
MaxOps == 4

\* the chat lists a caller passes to saveChatList
ChatLists == { << >>, <<1>>, <<2, 1>> }

\* the ids a caller passes to getChatList(id) / deleteChatList(id)
QueryIds == {ChatListId(t) : t \in 0..MaxClock} \cup {OtherId}

\* lines 496-504: the stored record; id and saved_at read the same clock
SnapshotCountLater(items, t) ==
  [id |-> ChatListId(t), chat_list |-> items, saved_at |-> t,
   total_count |-> 0]
Snapshot(items, t) ==
  [id |-> ChatListId(t), chat_list |-> items, saved_at |-> t,
   total_count |-> Len(items)]

\* Array.prototype.filter with storage.id === id (line 542)
FilterById(store, id) == SelectSeq(store, LAMBDA st : st.id = id)

\* Array.prototype.filter with storage.id !== id (line 664)
RemoveById(store, id) == SelectSeq(store, LAMBDA st : st.id # id)

\* [...store].sort((a, b) => b.saved_at - a.saved_at) (lines 545-547): the
\* sort is stable, so snapshots with equal saved_at keep their store order
InsertDescTiesReversed(x, sorted) ==
  LET k == Cardinality({i \in DOMAIN sorted :
                          sorted[i].saved_at > x.saved_at})
  IN SubSeq(sorted, 1, k) \o <<x>> \o SubSeq(sorted, k + 1, Len(sorted))
InsertDesc(x, sorted) ==
  LET k == Cardinality({i \in DOMAIN sorted :
                          sorted[i].saved_at >= x.saved_at})
  IN SubSeq(sorted, 1, k) \o <<x>> \o SubSeq(sorted, k + 1, Len(sorted))

RECURSIVE SortBySavedAtDesc(_)
SortUnsorted(store) == store
SortBySavedAtDesc(store) ==
  IF store = << >> THEN << >>
  ELSE InsertDesc(store[Len(store)],
                  SortBySavedAtDesc(SubSeq(store, 1, Len(store) - 1)))

\* store.reduce((latest, current) => current.saved_at > latest.saved_at ?
\* current : latest) (lines 582-584), from index i with accumulator latest
RECURSIVE ReduceLatest(_, _, _)
ReduceFirst(latest, store, i) == store[1]
ReduceLatest(latest, store, i) ==
  IF i > Len(store) THEN latest
  ELSE ReduceLatest(IF store[i].saved_at > latest.saved_at
                    THEN store[i] ELSE latest, store, i + 1)

\* this.chatListStorage.push(chatListData) (line 507)
PushEvicting(store, x) ==
  IF Len(store) >= 2 THEN Append(Tail(store), x) ELSE Append(store, x)
PushFront(store, x) == <<x>> \o store
Push(store, x) == Append(store, x)

\* one more chat-list operation has completed
Count(kind) ==
  [hist EXCEPT !.ops = @ + 1,
               !.saves = @ + (IF kind = "save" THEN 1 ELSE 0),
               !.deletes = @ + (IF kind = "delete" THEN 1 ELSE 0)]

\* saveChatList(chatList), lines 492-526
saveChatList ==
  /\ hist.ops < MaxOps
  /\ \E items \in ChatLists :
       /\ chatListStorage' = Push(chatListStorage, Snapshot(items, now))
       /\ ret' = [NoRet EXCEPT !.op = "save", !.items = items,
                               !.success = TRUE, !.id = ChatListId(now)]
  /\ hist' = Count("save")
  /\ UNCHANGED <<now, sessionVars>>

\* getChatList(id) with an id, lines 533-557
getChatListById ==
  /\ hist.ops < MaxOps
  /\ \E id \in QueryIds :
       ret' = [NoRet EXCEPT !.op = "get", !.qid = id, !.success = TRUE,
                            !.data = FilterById(chatListStorage, id)]
  /\ hist' = Count("get")
  /\ UNCHANGED <<chatListStorage, now, sessionVars>>

\* getChatList() without id, lines 533-557
getChatListAll ==
  /\ hist.ops < MaxOps
  /\ ret' = [NoRet EXCEPT !.op = "all", !.success = TRUE,
                          !.data = SortBySavedAtDesc(chatListStorage)]
  /\ hist' = Count("all")
  /\ UNCHANGED <<chatListStorage, now, sessionVars>>

\* the result of deleteChatList when no snapshot was removed (lines 666-671)
DeleteNoneReportsOk(id) == [NoRet EXCEPT !.op = "delete", !.qid = id,
                                         !.success = TRUE]
DeleteNone(id) == [NoRet EXCEPT !.op = "delete", !.qid = id,
                                !.error = "notfound"]

\* getLatestChatList(), lines 571-602
getLatestChatList ==
  /\ hist.ops < MaxOps
  /\ ret' = IF Len(chatListStorage) = 0
            THEN [NoRet EXCEPT !.op = "latest", !.error = "empty"]
            ELSE [NoRet EXCEPT !.op = "latest", !.success = TRUE,
                    !.data = <<ReduceLatest(chatListStorage[1],
                                            chatListStorage, 2)>>]
  /\ hist' = Count("latest")
  /\ UNCHANGED <<chatListStorage, now, sessionVars>>

\* deleteChatList(id), lines 661-685
deleteChatList ==
  /\ hist.ops < MaxOps
  /\ \E id \in QueryIds :
       /\ chatListStorage' = RemoveById(chatListStorage, id)
       /\ ret' = IF Len(chatListStorage') = Len(chatListStorage)
                 THEN DeleteNone(id)
                 ELSE [NoRet EXCEPT !.op = "delete", !.qid = id,
                                    !.success = TRUE]
       /\ hist' = IF ret'.success THEN Count("delete") ELSE Count("none")
  /\ UNCHANGED <<now, sessionVars>>

\* the wall clock advances
Tick ==
  /\ now < MaxClock
  /\ now' = now + 1
  /\ UNCHANGED <<chatListStorage, ret, hist, sessionVars>>

\* the wall clock is set back (Date.now() is not monotonic)
ClockSetBack ==
  /\ now > 0
  /\ now' = now - 1
  /\ hist' = [hist EXCEPT !.setBack = TRUE]
  /\ UNCHANGED <<chatListStorage, ret, sessionVars>>

NextStore ==
  \/ saveChatList
  \/ getChatListById
  \/ getChatListAll
  \/ getLatestChatList
  \/ deleteChatList
  \/ Tick
  \/ ClockSetBack

SpecStore == Init /\ [][NextStore]_vars

\* the step completes a chat-list operation of this kind
Completes(kind) == hist'.ops = hist.ops + 1 /\ ret'.op = kind

\* some stored snapshot has this id
Stored(id) == \E i \in DOMAIN chatListStorage : chatListStorage[i].id = id

\* the two sequences hold the same snapshots, each as often
SameSnapshots(a, b) ==
  /\ Len(a) = Len(b)
  /\ \A i \in DOMAIN a :
       Cardinality({j \in DOMAIN a : a[j] = a[i]})
         = Cardinality({j \in DOMAIN b : b[j] = a[i]})

(***************************************************************************)
(* C15: getChatList(id) called right after saveChatList(items) with the    *)
(* id that save returned yields exactly one snapshot; its chat_list is     *)
(* items and its total_count is the length of items.                       *)
(***************************************************************************)
C15_SaveThenGetById ==
  [][ (ret.op = "save" /\ ret.success /\ Completes("get")
         /\ ret'.qid = ret.id) =>
        /\ ret'.success
        /\ Len(ret'.data) = 1
        /\ ret'.data[1].chat_list = ret.items
        /\ ret'.data[1].total_count = Len(ret.items) ]_vars

(***************************************************************************)
(* C16: as long as nothing was deleted the store holds one snapshot per    *)
(* successful save, and getChatList() without an id returns exactly the    *)
(* stored snapshots, ordered by saved_at descending, whatever the order    *)
(* of the save times and also when save times are equal.                   *)
(***************************************************************************)
C16_ListAllSortedComplete ==
  /\ hist.deletes = 0 => Len(chatListStorage) = hist.saves
  /\ ret.op = "all" =>
       /\ ret.success
       /\ SameSnapshots(ret.data, chatListStorage)
       /\ \A i, j \in DOMAIN ret.data :
            i < j => ret.data[i].saved_at >= ret.data[j].saved_at

\* three saves at times 1, 0, 1 (the clock was set back in between), no
\* delete, then getChatList(): the two snapshots of time 1 come first
C16_Witness ==
  /\ ret.op = "all" /\ hist.saves = 3 /\ hist.deletes = 0
  /\ Len(chatListStorage) = 3
  /\ chatListStorage[1].saved_at = 1 /\ chatListStorage[2].saved_at = 0
  /\ chatListStorage[3].saved_at = 1
  /\ chatListStorage[1] # chatListStorage[3]
  /\ ret.data = <<chatListStorage[1], chatListStorage[3], chatListStorage[2]>>

C18_DeleteMissingLeavesStore ==
  [][ (Completes("delete") /\ ~Stored(ret'.qid)) =>
        /\ ~ret'.success /\ ret'.error = "notfound"
        /\ chatListStorage' = chatListStorage ]_vars

\* a delete of an id that is not stored, on a store of two snapshots
C18_Witness ==
  /\ ret.op = "delete" /\ ~ret.success /\ ~Stored(ret.qid)
  /\ Len(chatListStorage) = 2 /\ hist.saves = 2

(***************************************************************************)
(* C19: deleteChatList(id) with the id of a stored snapshot returns        *)
(* success and removes exactly one snapshot, the one with that id; every   *)
(* other snapshot stays, unchanged and in the same order.                  *)
(***************************************************************************)
C19_DeleteRemovesExactlyOne ==
  [][ (Completes("delete") /\ Stored(ret'.qid)) =>
        /\ ret'.success
        /\ Len(chatListStorage') = Len(chatListStorage) - 1
        /\ \E k \in DOMAIN chatListStorage :
             /\ chatListStorage[k].id = ret'.qid
             /\ chatListStorage' =
                  SubSeq(chatListStorage, 1, k - 1)
                    \o SubSeq(chatListStorage, k + 1, Len(chatListStorage))
      ]_vars

(***************************************************************************)
(* C20: the ids of the stored snapshots are pairwise distinct in every     *)
(* reachable state, also when two saves complete at the same clock value.  *)
(***************************************************************************)
C20_StoredIdsDistinct ==
  \A i, j \in DOMAIN chatListStorage :
    i # j => chatListStorage[i].id # chatListStorage[j].id

(***************************************************************************)
(* close() (lines 722-739) and fetchAndSaveChatList() (lines 608-654 with  *)
(* fetchChatList, lines 430-485), each as a call with its awaited steps.   *)
(***************************************************************************)
\* close(): the catch block (lines 736-738) logs the error; close resolves
CloseCatch(s) == Return([s EXCEPT !.c.res = "void", !.c.swallowed = TRUE])

\* close(): line 734, then the function ends
CloseEnd(s) == Return([s EXCEPT !.isLoggedIn = FALSE, !.c.res = "void"])

\* close(): lines 729-732
CloseBrowserPart(s) ==
  IF s.browser # 0
  THEN [s EXCEPT !.c.pc = "shutBrowser", !.c.lbr = s.browser]
  ELSE CloseEnd(s)

\* close() is called: lines 723-725
CallClose(p) ==
  /\ call[p].pc = "idle"
  /\ p > 1 => call[p - 1].pc # "idle"
  /\ LET s == [Cur(p) EXCEPT !.c.op = "close"]
     IN Apply(p, IF s.mainPage # 0 /\ ~IsClosed(s.mainPage)
                 THEN [s EXCEPT !.c.pc = "shutMain", !.c.lpg = s.mainPage]
                 ELSE CloseBrowserPart(s))
  /\ UNCHANGED <<browsers, pages, nLogin, faults>>

\* close(): this.mainPage.close() settles (line 725), then lines 726-730
ShutMainDone(p) ==
  /\ call[p].pc = "shutMain"
  /\ \/ /\ pages' = [pages EXCEPT ![call[p].lpg].closed = TRUE]
        /\ Apply(p, CloseBrowserPart([Cur(p) EXCEPT !.mainPage = 0]))
     \/ /\ UNCHANGED pages
        /\ Apply(p, CloseCatch(Cur(p)))
  /\ UNCHANGED <<browsers, nLogin, faults>>

\* close(): this.browser.close() settles (line 730), then lines 731-735
ShutBrowserDone(p) ==
  /\ call[p].pc = "shutBrowser"
  /\ \/ /\ browsers' = [browsers EXCEPT ![call[p].lbr].open = FALSE]
        /\ pages' = ClosePagesOf(call[p].lbr)
        /\ Apply(p, CloseEnd([Cur(p) EXCEPT !.browser = 0]))
     \/ /\ UNCHANGED <<browsers, pages>>
        /\ Apply(p, CloseCatch(Cur(p)))
  /\ UNCHANGED <<nLogin, faults>>

\* fetchAndSaveChatList() is called: lines 614-618 and 430-434, fetch() is
\* awaited.  The request does not use the browser session.
CallFetchAndSave(p) ==
  /\ call[p].pc = "idle"
  /\ p > 1 => call[p - 1].pc # "idle"
  /\ call' = [call EXCEPT ![p].op = "fetchSave", ![p].pc = "fetch"]
  /\ UNCHANGED <<browser, mainPage, isLoggedIn, browsers, pages, nLogin,
                 faults, storeVars>>

\* fetchChatList fails with error e: its catch block (lines 477-483), then
\* fetchAndSaveChatList returns at lines 620-625; no field of the session
\* is written
FetchFailedMarksExpired(p, e) ==
  /\ call' = [call EXCEPT ![p].pc = "done", ![p].res = "fail", ![p].err = e,
                          ![p].resErr = e]
  /\ isLoggedIn' = FALSE
  /\ mainPage' = 0
  /\ UNCHANGED browser
FetchFailed(p, e) ==
  /\ call' = [call EXCEPT ![p].pc = "done", ![p].res = "fail", ![p].err = e,
                          ![p].resErr = e]
  /\ UNCHANGED <<browser, mainPage, isLoggedIn>>

\* fetch() settles (line 434): a response with status ok, another status
\* (lines 462-464), or a rejection
FetchDone(p) ==
  /\ call[p].pc = "fetch"
  /\ \/ /\ call' = [call EXCEPT ![p].pc = "json"]
        /\ UNCHANGED <<browser, mainPage, isLoggedIn>>
     \/ FetchFailed(p, "http")
     \/ FetchFailed(p, "network")
  /\ UNCHANGED <<browsers, pages, nLogin, faults, storeVars>>

\* response.json() settles (line 466).  With a body that has an items array
\* fetchChatList returns it, saveChatList(items) runs (line 628, no await
\* inside) and lines 637-646 return id and data; a rejection, or a body
\* without items (line 469 throws), ends in the catch block of
\* fetchChatList.
JsonDoneSavesAnyway(p) ==
  /\ call[p].pc = "json"
  /\ chatListStorage' = Push(chatListStorage, Snapshot(<< >>, now))
  /\ ret' = [NoRet EXCEPT !.op = "save", !.success = TRUE,
                          !.id = ChatListId(now)]
  /\ hist' = Count("save")
  /\ FetchFailed(p, "body")
  /\ UNCHANGED <<now, browsers, pages, nLogin, faults>>
JsonDone(p) ==
  /\ call[p].pc = "json"
  /\ \/ /\ \E items \in ChatLists, has_next \in BOOLEAN :
             /\ chatListStorage' =
                  Push(chatListStorage, Snapshot(items, now))
             /\ ret' = [NoRet EXCEPT !.op = "save", !.items = items,
                                     !.success = TRUE, !.id = ChatListId(now)]
             /\ call' = [call EXCEPT ![p].pc = "done", ![p].res = "ok",
                                     ![p].hasId = TRUE,
                                     ![p].rid = ChatListId(now),
                                     ![p].ritems = items,
                                     ![p].rnext = has_next]
        /\ hist' = Count("save")
        /\ UNCHANGED <<now, browser, mainPage, isLoggedIn>>
     \/ /\ FetchFailed(p, "body")
        /\ UNCHANGED storeVars
  /\ UNCHANGED <<browsers, pages, nLogin, faults>>

(***************************************************************************)
(* Every operation of the service, called one after the other by a single  *)
(* client that awaits each result; MaxOps bounds the number of operations. *)
(***************************************************************************)
OpsLeft ==
  /\ NoCallInFlight
  /\ hist.ops + Cardinality({q \in Calls : Started(q)}) < MaxOps

CallOps(p) == OpsLeft /\ Call(p)
CallCloseOps(p) == OpsLeft /\ CallClose(p)
CallFetchAndSaveOps(p) == OpsLeft /\ CallFetchAndSave(p)
saveChatListOps == OpsLeft /\ saveChatList
getChatListByIdOps == OpsLeft /\ getChatListById
getChatListAllOps == OpsLeft /\ getChatListAll
getLatestChatListOps == OpsLeft /\ getLatestChatList
deleteChatListOps == OpsLeft /\ deleteChatList

StepOps(p) ==
  \/ CallOps(p)
  \/ CallCloseOps(p)
  \/ CallFetchAndSaveOps(p)
  \/ LaunchDone(p)
  \/ NewMainDone(p)
  \/ ViewportDone(p)
  \/ HeadersDone(p)
  \/ LoginDone(p)
  \/ CloseMainDone(p)
  \/ CloseBrowserDone(p)
  \/ NewTempDone(p)
  \/ GotoDone(p)
  \/ LoadStateDone(p)
  \/ WaitInputDone(p)
  \/ FillDone(p)
  \/ AttachButtonDone(p)
  \/ AttachOptionDone(p)
  \/ ReadTextDone(p)
  \/ PauseDone(p)
  \/ ClickDone(p)
  \/ SettleDone(p)
  \/ CloseTempDone(p)
  \/ ShutMainDone(p)
  \/ ShutBrowserDone(p)
  \/ FetchDone(p)
  \/ JsonDone(p)

NextOps ==
  \/ \E p \in Calls : StepOps(p)
  \/ saveChatListOps
  \/ getChatListByIdOps
  \/ getChatListAllOps
  \/ getLatestChatListOps
  \/ deleteChatListOps
  \/ RemoteLogout
  \/ BrowserCrash

SpecOps == Init /\ [][NextOps]_vars

\* some awaited call of this operation failed: an error was thrown in it, or
\* a rejection was logged and dropped
HadFailure(p) == call[p].err # "none" \/ call[p].swallowed

C21_GetByIdOneOrNotFound ==
  ret.op = "get" =>
    IF Stored(ret.qid)
    THEN ret.success /\ Len(ret.data) = 1 /\ ret.data[1].id = ret.qid
    ELSE ~ret.success /\ ret.error = "notfound"

(***************************************************************************)
(* Overlapping fetchAndSaveChatList calls (the POST /chat-list route       *)
(* serves requests concurrently) while the wall clock moves.               *)
(***************************************************************************)
StepFetch(p) ==
  \/ CallFetchAndSave(p)
  \/ FetchDone(p)
  \/ JsonDone(p)

NextFetch ==
  \/ \E p \in Calls : StepFetch(p)
  \/ Tick
  \/ ClockSetBack

SpecFetch == Init /\ [][NextFetch]_vars

(***************************************************************************)
(* C22: every fetchAndSaveChatList that returned success returned an id,   *)
(* the items and has_next of the response, and getChatList(id) with that   *)
(* id yields one snapshot whose chat_list is those items and whose         *)
(* total_count is their number, also when the calls overlap.               *)
(***************************************************************************)
C22_FetchedSnapshotRetrievable ==
  \A p \in Calls :
    (call[p].op = "fetchSave" /\ call[p].pc = "done" /\ call[p].res = "ok") =>
      /\ call[p].hasId /\ call[p].rid # NoId
      /\ LET d == FilterById(chatListStorage, call[p].rid)
         IN /\ Len(d) = 1
            /\ d[1].chat_list = call[p].ritems
            /\ d[1].total_count = Len(call[p].ritems)

(***************************************************************************)
(* C23: the conversation-list fetch is issued only while the session is    *)
(* Ready (logged in, main page set and open).                              *)
(***************************************************************************)
C23_FetchOnlyWhenReady ==
  \A p \in Calls : call[p].pc = "fetch" => isServiceReady

(***************************************************************************)
(* C24: a step in which the fetch or the parse of a fetchAndSaveChatList   *)
(* call fails leaves browser, mainPage and isLoggedIn as they were.        *)
(***************************************************************************)
C24_FetchFailureKeepsSession ==
  [][ \A p \in Calls :
        (call[p].op = "fetchSave" /\ call[p].pc \in {"fetch", "json"}
           /\ call'[p].res = "fail") =>
          (browser' = browser /\ mainPage' = mainPage
             /\ isLoggedIn' = isLoggedIn) ]_vars

\* a fetchAndSaveChatList has failed on a session that is still Ready
C24_Witness ==
  \E p \in Calls :
    /\ call[p].op = "fetchSave" /\ call[p].pc = "done" /\ call[p].res = "fail"
    /\ isServiceReady /\ browser # 0

\* the snapshots of the store that the step was not asked to delete: all of
\* them, unless the step completes deleteChatList(id), then those with
\* another id
KeptByStep ==
  SelectSeq(chatListStorage,
            LAMBDA st : ~(Completes("delete") /\ ret'.qid = st.id))

(***************************************************************************)
(* C25: in every step of every operation (save, read, fetch, dispatch,     *)
(* login, close) each stored snapshot stays in the store with the same     *)
(* id, chat_list, saved_at and total_count and in the same order, except   *)
(* the snapshots whose id the step's deleteChatList call names; new        *)
(* snapshots are only added behind them.                                   *)
(***************************************************************************)
C25_SnapshotsRetainedUntilDeleted ==
  [][ /\ Len(chatListStorage') >= Len(KeptByStep)
      /\ SubSeq(chatListStorage', 1, Len(KeptByStep)) = KeptByStep ]_vars

\* a snapshot saved first is still stored after a sendMessage and a close()
\* have run and returned
C25_Witness ==
  /\ Len(chatListStorage) = 1 /\ hist.saves = 1
  /\ call[1].op = "send" /\ call[1].pc = "done" /\ call[1].sent = 1
  /\ call[2].op = "close" /\ call[2].pc = "done"
  /\ browser = 0

(***************************************************************************)
(* C26: in every reachable state, hence in every state a read can          *)
(* observe, each stored snapshot is complete: its id is the generated id   *)
(* of its save time, chat_list is one of the saved lists, saved_at is a    *)
(* clock value and total_count is the length of chat_list; what a read     *)
(* returns are such snapshots.                                             *)
(***************************************************************************)
Complete(st) ==
  /\ st.id # NoId /\ st.id = ChatListId(st.saved_at)
  /\ st.saved_at \in 0..MaxClock
  /\ st.chat_list \in ChatLists
  /\ st.total_count = Len(st.chat_list)

C26_StoredSnapshotsComplete ==
  /\ \A i \in DOMAIN chatListStorage : Complete(chatListStorage[i])
  /\ \A i \in DOMAIN ret.data : Complete(ret.data[i])

\* a read has returned two snapshots of different sizes, saved at different
\* times
C26_Witness ==
  /\ ret.op = "all" /\ Len(ret.data) = 2
  /\ ret.data[1].total_count = 2 /\ ret.data[2].total_count = 0
  /\ ret.data[1].saved_at > ret.data[2].saved_at

\* saved_at never decreases along the insertion order of the store
SavedAtNonDecreasing ==
  \A i, j \in DOMAIN chatListStorage :
    i < j => chatListStorage[i].saved_at <= chatListStorage[j].saved_at

\* the step in which the response of a fetchAndSaveChatList call is parsed
\* appends that call's snapshot at the end of the store, stamped with the
\* clock of that moment
AppendsOnCompletion ==
  \A p \in Calls :
    (call[p].op = "fetchSave" /\ call[p].pc = "json"
       /\ call'[p].res = "ok") =>
      /\ Len(chatListStorage') = Len(chatListStorage) + 1
      /\ SubSeq(chatListStorage', 1, Len(chatListStorage)) = chatListStorage
      /\ chatListStorage'[Len(chatListStorage')].chat_list = call'[p].ritems
      /\ chatListStorage'[Len(chatListStorage')].saved_at = now

(***************************************************************************)
(* C27: overlapping fetchAndSaveChatList calls append their snapshots in   *)
(* the order in which their fetches complete, and saved_at is              *)
(* non-decreasing along the insertion order of the store.                  *)
(***************************************************************************)
C27_CompletionOrderAndSavedAt ==
  [][AppendsOnCompletion /\ SavedAtNonDecreasing']_vars

(***************************************************************************)
(* C27 amended: overlapping fetchAndSaveChatList calls append their        *)
(* snapshots in the order in which their fetches complete, each stamped    *)
(* with the wall clock of that moment; saved_at is non-decreasing along    *)
(* the insertion order as long as the wall clock has not been set back.    *)
(***************************************************************************)
C27_CompletionOrderClockOrder ==
  [][ /\ AppendsOnCompletion
      /\ ~hist'.setBack => SavedAtNonDecreasing' ]_vars

\* the call made second completed first: its snapshot is stored before the
\* snapshot of the call made first, with an earlier saved_at
C27_Witness ==
  /\ \A p \in Calls :
       call[p].op = "fetchSave" /\ call[p].pc = "done" /\ call[p].res = "ok"
  /\ call[1].ritems # call[2].ritems
  /\ ~hist.setBack
  /\ Len(chatListStorage) = 2
  /\ chatListStorage[1].chat_list = call[2].ritems
  /\ chatListStorage[2].chat_list = call[1].ritems
  /\ chatListStorage[1].saved_at < chatListStorage[2].saved_at

(***************************************************************************)
(* C28: when close() returns, also after one of its driver calls failed,   *)
(* the session is Uninitialized: browser is null and the browser it held   *)
(* is closed, isLoggedIn is false and isServiceReady() is false; close()   *)
(* resolves without an error.                                              *)
(***************************************************************************)
C28_CloseLeavesUninitialized ==
  [][ \A p \in Calls :
        (call'[p].op = "close" /\ call[p].pc # "done"
           /\ call'[p].pc = "done") =>
          /\ call'[p].res = "void"
          /\ browser' = 0
          /\ browser # 0 => ~browsers'[browser].open
          /\ ~isLoggedIn'
          /\ ~isServiceReady' ]_vars

(***************************************************************************)
(* GET /api/health (src/src/routes/health.ts).  registered: whether        *)
(* setKakaoTalkService has stored a service instance (index.ts line 21).   *)
(***************************************************************************)
\* lines 22-31: the kakaoTalk status object
KakaoTalkStatusAlwaysReady(registered) ==
  [isReady |-> registered, isLoggedIn |-> registered]
KakaoTalkStatus(registered) ==
  IF registered
  THEN [isReady |-> isServiceReady, isLoggedIn |-> isServiceReady]
  ELSE [isReady |-> FALSE, isLoggedIn |-> FALSE]

\* line 45: the status code of the response
HealthStatusCode(registered) ==
  IF KakaoTalkStatus(registered).isReady THEN 200 ELSE 503

(***************************************************************************)
(* C29: the health endpoint answers 200 with isReady = true exactly when   *)
(* a service instance is registered and isLoggedIn is true and mainPage is *)
(* set and not closed; otherwise it answers 503 with isReady = false, in   *)
(* particular while an authentication (initializeMainPage) is in flight.   *)
(***************************************************************************)
C29_HealthReflectsReady ==
  /\ \A registered \in BOOLEAN :
       LET ready == registered /\ isLoggedIn /\ mainPage # 0
                      /\ ~pages[mainPage].closed
       IN /\ KakaoTalkStatus(registered).isReady = ready
          /\ HealthStatusCode(registered) = (IF ready THEN 200 ELSE 503)
  /\ \A p \in Calls : InAuth(p) => HealthStatusCode(TRUE) = 503

\* the health endpoint answers 503 while the login of a re-authentication
\* is in flight, on a session that was Ready before
C29_Witness ==
  \E p, q \in Calls :
    /\ call[q].pc = "done" /\ call[q].res = "ok"
    /\ call[p].pc = "login" /\ call[p].phase = 2
    /\ HealthStatusCode(TRUE) = 503

(***************************************************************************)
(* The service instance of the message router.  The router module builds   *)
(* its own KakaoTalkService (part_002 line 7) and the /send route calls    *)
(* sendMessage on it (line 37); index.ts builds another instance (line     *)
(* 18) and awaits initialize() on that one before the server listens       *)
(* (lines 83, 93).  browser, mainPage and isLoggedIn are the fields of the *)
(* router's instance; browsers, pages and nLogin count for the whole       *)
(* process.  Call 1 is the initialize() of startup, the later calls are    *)
(* the sendMessage calls of the route.                                     *)
(***************************************************************************)
\* index.ts line 83: initialize() on the instance of index.ts has run to its
\* end before any request is served.  It succeeded (a browser, its main
\* page and one login, none of them in a field of the router's instance) or
\* it failed at the launch.
StartupInitialize(p) ==
  /\ p = 1 /\ call[p].pc = "idle"
  /\ \/ /\ browsers' = Append(browsers, [open |-> TRUE, authed |-> TRUE])
        /\ pages' = Append(pages, [br |-> Len(browsers) + 1,
                                   closed |-> FALSE, kind |-> "main",
                                   by |-> p, actors |-> {}])
        /\ nLogin' = nLogin + 1
        /\ call' = [call EXCEPT ![p].op = "init", ![p].pc = "done",
                                ![p].res = "ok", ![p].auth = "ok"]
     \/ /\ call' = [call EXCEPT ![p].op = "init", ![p].pc = "done",
                                ![p].res = "fail", ![p].err = "driver",
                                ![p].resErr = "driver"]
        /\ UNCHANGED <<browsers, pages, nLogin>>
  /\ UNCHANGED <<browser, mainPage, isLoggedIn, faults, storeVars>>

\* POST /send: sendMessage is called on the router's instance (line 37)
SendRoute(p) == p > 1 /\ Call(p) /\ call'[p].op = "send"

\* The router's instance serves one sendMessage here; its browser is null
\* when that call starts, so the re-login path that closes an existing
\* browser first (lines 257-258) has no step in this specification.
StepRoute(p) ==
  \/ StartupInitialize(p)
  \/ SendRoute(p)
  \/ LaunchDone(p)
  \/ NewMainDone(p)
  \/ ViewportDone(p)
  \/ HeadersDone(p)
  \/ LoginDone(p)
  \/ CloseMainDone(p)
  \/ NewTempDone(p)
  \/ GotoDone(p)
  \/ LoadStateDone(p)
  \/ WaitInputDone(p)
  \/ FillDone(p)
  \/ AttachButtonDone(p)
  \/ AttachOptionDone(p)
  \/ ReadTextDone(p)
  \/ PauseDone(p)
  \/ ClickDone(p)
  \/ SettleDone(p)
  \/ CloseTempDone(p)

NextRoute ==
  \/ \E p \in Calls : StepRoute(p)
  \/ RemoteLogout
  \/ BrowserCrash

SpecRoute == Init /\ [][NextRoute]_vars

(***************************************************************************)
(* C30: after initialize() succeeded at startup, and as long as no session *)
(* was invalidated, the sendMessage calls of the /send route launch no     *)
(* browser and make no login: the process has the one browser and the one  *)
(* login of startup.                                                       *)
(***************************************************************************)
C30_SendsReuseStartupSession ==
  (call[1].op = "init" /\ call[1].res = "ok" /\ faults = 0) =>
    (Len(browsers) = 1 /\ nLogin = 1)

(***************************************************************************)
(* C31: a sendMessage call that finds the session not usable closes the    *)
(* old browser before it launches a new one, so under every interleaving   *)
(* of concurrent callers every launched browser that is still open is the  *)
(* one the service holds (no orphaned browser).                            *)
(***************************************************************************)
C31_NoOrphanedBrowser ==
  \A b \in DOMAIN browsers : browsers[b].open => browser = b

\* the driver calls of one dispatch (lines 273-280, 324-364) in the order
\* the code issues them: a is followed by b
DispatchSteps ==
  {"goto", "loadState", "waitInput", "fill", "attachButton", "attachOption",
   "readText", "pause", "click", "settle"}

DispatchOrder ==
  { <<"newTemp", "goto">>, <<"goto", "loadState">>,
    <<"loadState", "waitInput">>, <<"waitInput", "fill">>,
    <<"fill", "attachButton">>, <<"fill", "readText">>,
    <<"attachButton", "attachOption">>, <<"attachOption", "readText">>,
    <<"readText", "pause">>, <<"pause", "click">>, <<"click", "settle">> }

(***************************************************************************)
(* C32: within one dispatch the steps run in the order navigate, wait for  *)
(* the message input, fill, optional attachment, click send, settle: a     *)
(* step is only ever issued right after its predecessor resolved, the send *)
(* button is clicked only in the click step, which comes after the fill,   *)
(* the fill is issued only when the message input appeared, and when the   *)
(* input wait fails neither fill nor click is performed: the call goes to  *)
(* its finally block with success = false and no send click.               *)
(***************************************************************************)
C32_DispatchStepsInOrder ==
  [][\A p \in Calls :
       /\ (call'[p].pc # call[p].pc /\ call'[p].pc \in DispatchSteps)
            => <<call[p].pc, call'[p].pc>> \in DispatchOrder
       /\ call'[p].sent # call[p].sent
            => (call[p].pc = "click" /\ call'[p].sent = call[p].sent + 1)
       /\ (call[p].pc = "waitInput" /\ call'[p].pc = "fill")
            => (~IsClosed(call[p].lpg) /\ RemoteAuthed(call[p].lpg))
       /\ (call[p].pc = "waitInput" /\ call'[p].pc \notin {"waitInput", "fill"})
            => /\ call'[p].pc \in {"closeTemp", "done"}
               /\ call'[p].res = "fail" /\ call'[p].resErr # "none"
               /\ call'[p].sent = 0
       /\ call[p].pc \in {"closeTemp", "done"}
            => call'[p].pc \in {"closeTemp", "done"} ]_vars

\* one dispatch went through every step and returned success; in another
\* the message input never appeared (the remote site had ended the web
\* session): it is in its finally block, failed, with no send click
C32_Witness ==
  \E p, q \in Calls :
    /\ call[p].pc = "done" /\ call[p].res = "ok" /\ call[p].sent = 1
    /\ call[q].msg = NoMsg
    /\ call[q].pc = "closeTemp" /\ call[q].res = "fail" /\ call[q].sent = 0
    /\ call[q].lost /\ ~IsClosed(call[q].tempPage)
    /\ browsers[pages[call[q].tempPage].br].open

\* the step in which call p reports the failure of a dispatch step that was
\* not caused by a lost session (closed page or browser, ended web session)
DispatchStepFails(p) ==
  /\ call[p].tempPage # 0
  /\ call[p].res = "none" /\ call'[p].res = "fail"
  /\ ~call'[p].lost

(***************************************************************************)
(* C33: a dispatch step failure that is not an authentication or context   *)
(* loss leaves the session as it is: the step that reports it changes none *)
(* of browser, mainPage and isLoggedIn, so a Ready session stays Ready;    *)
(* and a sendMessage called on a Ready session goes straight to opening    *)
(* its temporary page, with no launch and no login.                        *)
(***************************************************************************)
C33_StepFailureKeepsSession ==
  [][\A p \in Calls :
       /\ DispatchStepFails(p) =>
            /\ browser' = browser
            /\ mainPage' = mainPage
            /\ isLoggedIn' = isLoggedIn
            /\ isServiceReady => isServiceReady'
       /\ (call[p].pc = "idle" /\ call'[p].op = "send" /\ isServiceReady
             /\ browser # 0) =>
            (call'[p].pc = "newTemp" /\ nLogin' = nLogin
               /\ browsers' = browsers) ]_vars

\* a dispatch failed at a step on a live page, the session is still Ready,
\* and the next sendMessage delivered without a second login
C33_Witness ==
  \E p, q \in Calls :
    /\ call[p].op = "send" /\ call[p].pc = "done" /\ call[p].res = "fail"
    /\ call[p].tempPage # 0 /\ ~call[p].lost /\ call[p].err = "driver"
    /\ call[q].op = "send" /\ call[q].pc = "done" /\ call[q].res = "ok"
    /\ ~call[q].uninitAtCall /\ ~call[q].expiredAtCall
    /\ call[q].auth = "none"
    /\ isServiceReady /\ nLogin = 1 /\ Len(browsers) = 1

(***************************************************************************)
(* loginToKakaoTalk(page) step by step (lines 170-230).  In LoginDone the   *)
(* whole function is one step; here every driver call it awaits is one.    *)
(* HeadersDone has issued page.goto (line 175) with pc = "login".          *)
(***************************************************************************)
\* loginToKakaoTalk returns true (lines 204, 220), then lines 149-153
LoginTrue(p) ==
  /\ browsers' = [browsers EXCEPT ![pages[call[p].lpg].br].authed = TRUE]
  /\ Apply(p, AfterInitBrowser([Cur(p) EXCEPT !.isLoggedIn = TRUE,
                                              !.c.auth = "ok"]))

\* loginToKakaoTalk returns false (lines 208, 224, 228), then lines 149-151
\* throw into the catch block of initializeMainPage
LoginFalse(p) ==
  /\ Apply(p, InitCatch([Cur(p) EXCEPT !.c.auth = "failed"], "login"))
  /\ UNCHANGED browsers

\* a driver call of the login resolved and the next one is awaited, or it
\* was rejected and the outer catch returns false (lines 226-229)
LoginStep(p, to) ==
  /\ \/ /\ ~IsClosed(call[p].lpg)
        /\ Apply(p, [Cur(p) EXCEPT !.c.pc = to])
        /\ UNCHANGED browsers
     \/ LoginFalse(p)
  /\ UNCHANGED <<pages, nLogin, faults>>

\* page.goto resolves (line 175), then loginIdInput.isVisible (line 183)
LoginGotoDone(p) == call[p].pc = "login" /\ LoginStep(p, "lgForm")

\* loginIdInput.isVisible settles (line 183): the site shows the form to a
\* context that is not authenticated
LoginFormDone(p) ==
  /\ call[p].pc = "lgForm"
  /\ \/ /\ ~IsClosed(call[p].lpg) /\ ~RemoteAuthed(call[p].lpg)
        /\ Apply(p, [Cur(p) EXCEPT !.c.pc = "lgFillId"])
        /\ UNCHANGED browsers
     \/ /\ ~IsClosed(call[p].lpg)
        /\ Apply(p, [Cur(p) EXCEPT !.c.pc = "lgAlready"])
        /\ UNCHANGED browsers
     \/ LoginFalse(p)
  /\ UNCHANGED <<pages, nLogin, faults>>

\* loginIdInput.fill (line 186), passwordInput.fill (line 189),
\* loginButton.click (line 192), waitForLoadState (line 195)
LoginFillIdDone(p) == call[p].pc = "lgFillId" /\ LoginStep(p, "lgFillPw")
LoginFillPwDone(p) == call[p].pc = "lgFillPw" /\ LoginStep(p, "lgClick")
LoginClickDone(p) == call[p].pc = "lgClick" /\ LoginStep(p, "lgLoad")
LoginLoadDone(p) == call[p].pc = "lgLoad" /\ LoginStep(p, "lgLandmark")

\* waitForSelector("#kakaoContent", 60 s) settles (lines 202-209): the
\* landmark appeared, or the inner catch returns false
LoginLandmarkDone(p) ==
  /\ call[p].pc = "lgLandmark"
  /\ \/ ~IsClosed(call[p].lpg) /\ LoginTrue(p)
     \/ LoginFalse(p)
  /\ UNCHANGED <<pages, nLogin, faults>>

\* the isVisible of the chat list settles (lines 213-216), a rejection
\* counting as false: lines 218-224
LoginAlreadyDone(p) ==
  /\ call[p].pc = "lgAlready"
  /\ IF ~IsClosed(call[p].lpg) /\ RemoteAuthed(call[p].lpg)
     THEN LoginTrue(p)
     ELSE LoginFalse(p)
  /\ UNCHANGED <<pages, nLogin, faults>>

InLogin(p) ==
  call[p].pc \in {"login", "lgForm", "lgFillId", "lgFillPw", "lgClick",
                  "lgLoad", "lgLandmark", "lgAlready"}

StepLogin(p) ==
  \/ CallSeq(p)
  \/ LaunchDone(p)
  \/ NewMainDone(p)
  \/ ViewportDone(p)
  \/ HeadersDone(p)
  \/ LoginGotoDone(p)
  \/ LoginFormDone(p)
  \/ LoginFillIdDone(p)
  \/ LoginFillPwDone(p)
  \/ LoginClickDone(p)
  \/ LoginLoadDone(p)
  \/ LoginLandmarkDone(p)
  \/ LoginAlreadyDone(p)
  \/ CloseMainDone(p)
  \/ CloseBrowserDone(p)
  \/ NewTempDone(p)
  \/ GotoDone(p)
  \/ LoadStateDone(p)
  \/ WaitInputDone(p)
  \/ FillDone(p)
  \/ AttachButtonDone(p)
  \/ AttachOptionDone(p)
  \/ ReadTextDone(p)
  \/ PauseDone(p)
  \/ ClickDone(p)
  \/ SettleDone(p)
  \/ CloseTempDone(p)

NextLogin ==
  \/ \E p \in Calls : StepLogin(p)
  \/ RemoteLogout
  \/ BrowserCrash

SpecLogin == Init /\ [][NextLogin]_vars

\* the step in which initializeMainPage of call p returns or throws
AttemptEnds(p) ==
  /\ InAuth(p) \/ InLogin(p)
  /\ ~(InAuth(p) \/ InLogin(p))'

(***************************************************************************)
(* C34 (calls made one after the other): a login attempt ends Ready only   *)
(* from the landmark wait after the submitted form, or from the check of   *)
(* the already-authenticated landmark when no form was shown; an attempt   *)
(* that ends in any other way (bound exceeded, neither form nor landmark,  *)
(* a driver error) ends with isLoggedIn false, the main page closed and    *)
(* mainPage null.                                                          *)
(***************************************************************************)
C34_LoginEndsReadyOrFailed ==
  [][\A p \in Calls :
       AttemptEnds(p) =>
         IF call'[p].auth = "ok" /\ call[p].auth = "none"
         THEN /\ call[p].pc \in {"lgLandmark", "lgAlready"}
              /\ isServiceReady'
         ELSE /\ ~isLoggedIn'
              /\ mainPage' = 0
              /\ \A g \in DOMAIN pages' :
                   (pages'[g].kind = "main" /\ pages'[g].by = p)
                     => pages'[g].closed ]_vars

(***************************************************************************)
(* C35: when the remote fetch answers with a status that is not OK, or     *)
(* with a body without the items field, fetchAndSaveChatList returns a     *)
(* failure with an error, and the step leaves the snapshot store as it     *)
(* was: nothing is saved.                                                  *)
(***************************************************************************)
C35_BadResponseSavesNothing ==
  [][\A p \in Calls :
       (call[p].pc \in {"fetch", "json"} /\ call'[p].pc # call[p].pc
          /\ call'[p].err \in {"http", "body"}) =>
         /\ call'[p].pc = "done"
         /\ call'[p].res = "fail" /\ call'[p].resErr = call'[p].err
         /\ call'[p].rid = NoId /\ ~call'[p].hasId
         /\ chatListStorage' = chatListStorage
         /\ hist'.saves = hist.saves ]_vars

\* on a store of one snapshot, one fetchAndSaveChatList got a status that
\* is not OK and another got a body without items; the store still holds
\* that one snapshot
C35_Witness ==
  \E p, q \in Calls :
    /\ call[p].op = "fetchSave" /\ call[p].pc = "done"
    /\ call[p].res = "fail" /\ call[p].err = "http"
    /\ call[q].op = "fetchSave" /\ call[q].pc = "done"
    /\ call[q].res = "fail" /\ call[q].err = "body"
    /\ Len(chatListStorage) = 1 /\ hist.saves = 1

(***************************************************************************)
(* Startup (index.ts, startServer, lines 79-117).  Call 1 is startServer:  *)
(* it calls initialize() on the instance index.ts built and awaits it (line *)
(* 83); when initialize() has returned, the continuation calls app.listen  *)
(* (line 93) whatever the result was.  Express handles a request only once *)
(* the server listens; the request here is POST /chat-list of the message  *)
(* router, which runs fetchAndSaveChatList.                                *)
(***************************************************************************)
\* initialize() is called at line 83
Startup(p) == p = 1 /\ Call(p) /\ call'[p].op = "init"

\* the await of line 83 resumes with initResult; lines 85-98: app.listen
Listen(p) ==
  /\ p = 1 /\ call[p].op = "init" /\ call[p].pc = "done"
  /\ call' = [call EXCEPT ![p].pc = "listening"]
  /\ UNCHANGED <<browser, mainPage, isLoggedIn, browsers, pages, nLogin,
                 faults, storeVars>>

\* the HTTP server accepts connections
ListeningAlways == TRUE
Listening == call[1].pc = "listening"

\* a request is handled: the route calls fetchAndSaveChatList
RequestChatList(p) == p > 1 /\ Listening /\ CallFetchAndSave(p)

StepStart(p) ==
  \/ Startup(p)
  \/ LaunchDone(p)
  \/ NewMainDone(p)
  \/ ViewportDone(p)
  \/ HeadersDone(p)
  \/ LoginDone(p)
  \/ CloseMainDone(p)
  \/ Listen(p)
  \/ RequestChatList(p)
  \/ FetchDone(p)
  \/ JsonDone(p)

NextStart ==
  \/ \E p \in Calls : StepStart(p)
  \/ RemoteLogout
  \/ BrowserCrash

\* Fairness: startServer() is called when the module is loaded (line 122),
\* every driver call and the fetch settle (timeouts), and the event loop
\* runs the continuation of a settled await.
SpecStart ==
  /\ Init /\ [][NextStart]_vars
  /\ \A p \in Calls : WF_vars(StepStart(p))

\* initialize() of startup is running
InitializeInFlight == call[1].pc \notin {"idle", "done", "listening"}

(***************************************************************************)
(* C36: at startup the HTTP server begins to listen only after             *)
(* initialize() has finished, so no request is handled before that, in     *)
(* particular none while the initial authentication is in flight; and      *)
(* once startup has begun the server does begin to listen, whether         *)
(* initialize() returned success or failure.                               *)
(***************************************************************************)
C36_ListenAfterInitialize ==
  /\ [](Listening => call[1].res \in {"ok", "fail"})
  /\ [](\A p \in Calls :
          (p > 1 /\ Started(p)) => (Listening /\ ~InitializeInFlight))
  /\ \A r \in {"ok", "fail"} :
       (call[1].pc = "done" /\ call[1].res = r)
         ~> (Listening /\ call[1].res = r)

\* initialize() failed at startup, the server listens all the same and has
\* handled a request
C36_Witness ==
  /\ Listening /\ call[1].res = "fail" /\ call[1].auth = "failed"
  /\ \E p \in Calls : p > 1 /\ call[p].op = "fetchSave" /\ call[p].pc = "done"

(***************************************************************************)
(* sendMessage, initialize and close calls on one service, in any          *)
(* interleaving of their awaited steps.                                    *)
(***************************************************************************)
StepShared(p) ==
  \/ Step(p)
  \/ CallClose(p)
  \/ ShutMainDone(p)
  \/ ShutBrowserDone(p)

NextShared ==
  \/ \E p \in Calls : StepShared(p)
  \/ RemoteLogout
  \/ BrowserCrash

SpecShared == Init /\ [][NextShared]_vars

(***************************************************************************)
(* C37: in every state between awaited steps, under any interleaving of    *)
(* sendMessage, initialize and close calls, isLoggedIn = true implies that *)
(* browser and mainPage are both non-null.                                 *)
(***************************************************************************)
C37_LoggedInImpliesHandles ==
  isLoggedIn => (browser # 0 /\ mainPage # 0)

(***************************************************************************)
(* C38: on a non-empty store getLatestChatList returns the same snapshot   *)
(* as the first element of getChatList() without an id, also when several  *)
(* snapshots share the maximal saved_at: both are the snapshot stored      *)
(* first among those with the maximal saved_at.                            *)
(***************************************************************************)
C38_LatestIsFirstOfAll ==
  chatListStorage # << >> =>
    LET latest == ReduceLatest(chatListStorage[1], chatListStorage, 2)
        all == SortBySavedAtDesc(chatListStorage)
    IN /\ latest = all[1]
       /\ ret.op = "latest" => (ret.success /\ ret.data = <<all[1]>>)
       /\ ret.op = "all" => (ret.success /\ ret.data[1] = latest)

\* getLatestChatList has returned on a store whose two newest snapshots
\* have the same saved_at and different chat lists, stored after an older
\* one
C38_Witness ==
  /\ ret.op = "latest" /\ ret.success
  /\ Len(chatListStorage) = 3
  /\ chatListStorage[1].saved_at < chatListStorage[2].saved_at
  /\ chatListStorage[2].saved_at = chatListStorage[3].saved_at
  /\ chatListStorage[2] # chatListStorage[3]
  /\ ret.data = <<chatListStorage[2]>>

(***************************************************************************)
(* POST /send of the message router (part_002, lines 23-69): the response  *)
(* for a validated request as a function of how sendMessage settled.  r is *)
(* the res field of the call: the route does not read result.success.      *)
(***************************************************************************)
\* lines 47-51: res.json({ success: true, message: "... sent ...", result });
\* lines 52-68: a rejection gives status 500 and a body without success
SendResponse(r) ==
  IF r = "rejected"
  THEN [status |-> 500, success |-> FALSE, sentMessage |-> FALSE,
        result |-> "none"]
  ELSE [status |-> 200, success |-> TRUE, sentMessage |-> TRUE,
        result |-> r]

(***************************************************************************)
(* C39: the POST /send route reports top-level success = true with the     *)
(* "sent successfully" message only when the sendMessage result has        *)
(* success = true; a failed dispatch result is reported to the HTTP caller *)
(* as a failure.                                                           *)
(***************************************************************************)
C39_RouteReportsDispatchResult ==
  \A p \in Calls :
    (p > 1 /\ call[p].op = "send" /\ call[p].pc = "done") =>
      LET response == SendResponse(call[p].res)
      IN /\ (response.success \/ response.sentMessage) => call[p].res = "ok"
         /\ call[p].res = "fail" =>
              (~response.success /\ response.status # 200)

====
